---- MODULE Spec2Model ----
(***************************************************************************)
(* timed-writer: a process parses its command line (main), opens the       *)
(* target file, optionally takes an exclusive flock on it, and then        *)
(* writes one block per iteration with a sleep between iterations          *)
(* (line_writer).  The model follows src/timed-writer.c.                   *)
(*                                                                         *)
(* Modelling conventions                                                   *)
(*  - A command-line token is a sequence of one-character strings.         *)
(*  - Byte strings (the write buffer, a file's content) are run-length     *)
(*    encoded: a sequence of <<byte, count>> runs in normal form (no       *)
(*    empty run, no two adjacent runs of the same byte), so that a         *)
(*    32 MiB block is one run.  Bytes are "0".."9", "-", "LF" (newline),  *)
(*    "NUL" (zero byte) and "CR" (carriage return).                       *)
(*  - A C long is 64 bits wide, kept as four 16-bit limbs (little endian,  *)
(*    two's complement); a C int is 32 bits wide.                          *)
(*  - getopt is the GNU one in its default (permuting) mode; option        *)
(*    tokens drawn are of the form -x, with option arguments in the        *)
(*    following token.                                                     *)
(***************************************************************************)
EXTENDS Integers, Sequences, FiniteSets, TLC

(***************************************************************************)
(* Program constants (#define lines of timed-writer.c).                    *)
(***************************************************************************)
INTERVAL_DEFAULT == 5
INTERVAL_MIN == 1
INTERVAL_MAX == 60 * 60
ITERATION_MAX == 666
FAILURE_MAX == 100
FAILURE_DEFAULT == 5
BS_DEF == 1024
BS_MAX == 1024 * 1024 * 32
EXIT_SUCCESS == 0
EXIT_FAILURE == 1

(***************************************************************************)
(* Bounds of the model.                                                    *)
(***************************************************************************)
\* -c values drawn for full runs are 1..MaxIter
MaxIter == 3
\* -f values drawn for full runs are 0..MaxFail
MaxFail == 2
\* a run is followed for at most MaxIter + 1 write calls
MaxWrites == MaxIter + 1

Procs == {1, 2}

(***************************************************************************)
(* Run-length encoded byte strings.                                        *)
(***************************************************************************)
RECURSIVE RLen(_)
RLen(r) == IF r = <<>> THEN 0 ELSE Head(r)[2] + RLen(Tail(r))

\* concatenation, merging the two runs that meet
RCat(a, b) ==
    IF a = <<>> THEN b
    ELSE IF b = <<>> THEN a
    ELSE IF a[Len(a)][1] = b[1][1]
         THEN SubSeq(a, 1, Len(a) - 1)
              \o << <<b[1][1], a[Len(a)][2] + b[1][2]>> >>
              \o Tail(b)
         ELSE a \o b

RFill(byte, n) == IF n <= 0 THEN <<>> ELSE << <<byte, n>> >>

RECURSIVE RText(_)
RText(s) == IF s = <<>> THEN <<>> ELSE RCat(RFill(Head(s), 1), RText(Tail(s)))

\* the first k bytes
RECURSIVE RTake(_, _)
RTake(r, k) ==
    IF k <= 0 \/ r = <<>> THEN <<>>
    ELSE IF Head(r)[2] >= k THEN << <<Head(r)[1], k>> >>
    ELSE <<Head(r)>> \o RTake(Tail(r), k - Head(r)[2])

\* all but the first k bytes
RECURSIVE RDrop(_, _)
RDrop(r, k) ==
    IF k <= 0 \/ r = <<>> THEN r
    ELSE IF Head(r)[2] > k THEN << <<Head(r)[1], Head(r)[2] - k>> >> \o Tail(r)
    ELSE RDrop(Tail(r), k - Head(r)[2])

\* the bytes of r with data stored at offset pos (bytes between the end of
\* r and pos are zero bytes: a hole)
ROverlay(r, pos, data) ==
    LET before == RCat(RTake(r, pos), RFill("NUL", pos - RLen(r)))
    IN  RCat(RCat(before, data), RDrop(r, pos + RLen(data)))

(***************************************************************************)
(* Text and numbers.                                                       *)
(***************************************************************************)
DigitChars == <<"0", "1", "2", "3", "4", "5", "6", "7", "8", "9">>
IsDigit(c) == \E d \in 1..10 : DigitChars[d] = c
DigitVal(c) == (CHOOSE d \in 1..10 : DigitChars[d] = c) - 1
IsSpace(c) == c \in {" ", "\t", "\n"}

\* sprintf("%d", n)
RECURSIVE DecimalText(_)
DecimalText(n) ==
    IF n < 0 THEN <<"-">> \o DecimalText(0 - n)
    ELSE IF n < 10 THEN <<DigitChars[n + 1]>>
    ELSE DecimalText(n \div 10) \o <<DigitChars[(n % 10) + 1]>>

\* 64-bit long as four 16-bit limbs
Limb == 256 * 256
LongZero == <<0, 0, 0, 0>>
LongOfNat(n) == <<n % Limb, (n \div Limb) % Limb, 0, 0>>

\* x * 10 + d, modulo 2^64
LongMulAdd10(x, d) ==
    LET t1 == x[1] * 10 + d
        t2 == x[2] * 10 + (t1 \div Limb)
        t3 == x[3] * 10 + (t2 \div Limb)
        t4 == x[4] * 10 + (t3 \div Limb)
    IN  <<t1 % Limb, t2 % Limb, t3 % Limb, t4 % Limb>>

\* -x, modulo 2^64
LongNeg(x) ==
    LET n1 == (Limb - x[1]) % Limb
        b1 == IF x[1] = 0 THEN 0 ELSE 1
        n2 == (2 * Limb - x[2] - b1) % Limb
        b2 == IF x[2] = 0 /\ b1 = 0 THEN 0 ELSE 1
        n3 == (2 * Limb - x[3] - b2) % Limb
        b3 == IF x[3] = 0 /\ b2 = 0 THEN 0 ELSE 1
        n4 == (2 * Limb - x[4] - b3) % Limb
    IN  <<n1, n2, n3, n4>>

LongIsNeg(x) == x[4] >= Limb \div 2
\* the long's value is that of a 32-bit int
LongFitsInt(x) ==
    \/ x[3] = 0 /\ x[4] = 0 /\ x[2] < Limb \div 2
    \/ x[3] = Limb - 1 /\ x[4] = Limb - 1 /\ x[2] >= Limb \div 2
\* conversion long -> int: the low 32 bits, as a signed number
Int32Of(x) == (IF x[2] >= Limb \div 2 THEN x[2] - Limb ELSE x[2]) * Limb + x[1]
\* x > c and x < c for a long x and a constant 0 <= c < 2^31
LongGt(x, c) == ~LongIsNeg(x) /\ (~LongFitsInt(x) \/ Int32Of(x) > c)
LongLt(x, c) == LongIsNeg(x) \/ (LongFitsInt(x) /\ Int32Of(x) < c)

\* atol: skips white space, takes an optional sign and then digits up to
\* the first character that is not one; no digits gives 0
RECURSIVE AtolDigits(_, _)
AtolDigits(s, acc) ==
    IF s = <<>> \/ ~IsDigit(Head(s)) THEN acc
    ELSE AtolDigits(Tail(s), LongMulAdd10(acc, DigitVal(Head(s))))

RECURSIVE atol(_)
atol(s) ==
    IF s = <<>> THEN LongZero
    ELSE IF IsSpace(Head(s)) THEN atol(Tail(s))
    ELSE IF Head(s) = "-" THEN LongNeg(AtolDigits(Tail(s), LongZero))
    ELSE IF Head(s) = "+" THEN AtolDigits(Tail(s), LongZero)
    ELSE AtolDigits(s, LongZero)

(***************************************************************************)
(* Command lines.                                                          *)
(***************************************************************************)
OptS == <<"-", "s">>
OptC == <<"-", "c">>
OptF == <<"-", "f">>
OptB == <<"-", "b">>
OptL == <<"-", "l">>
OptH == <<"-", "h">>
OptX == <<"-", "x">>
DashDash == <<"-", "-">>
PathA == <<"a">>
PathB == <<"b">>
Paths == {PathA, PathB}

\* an option token (GNU getopt: a token that starts with '-' and is neither
\* "-" nor "--")
IsOptionTok(t) == Len(t) >= 2 /\ t[1] = "-" /\ t # DashDash
\* the optstring "s:c:b:f:lh"
OptsWithArg == {"s", "c", "b", "f"}
OptsNoArg == {"l", "h"}

\* index of the first token at or after i that is an option token or "--";
\* Len(argv) + 1 when there is none
RECURSIVE NextOptionIndex(_, _)
NextOptionIndex(argv, i) ==
    IF i > Len(argv) THEN Len(argv) + 1
    ELSE IF IsOptionTok(argv[i]) \/ argv[i] = DashDash THEN i
    ELSE NextOptionIndex(argv, i + 1)

\* One call of getopt with the scan at token i (argv here holds the
\* arguments after the program name), for an optstring whose options
\* withArg take an argument and whose options noArg take none.  The result is
\* the option character ("?" for an unknown option or a missing argument,
\* "EOF" for -1), optarg, the index where the next call resumes, and the
\* non-option tokens passed over, which GNU getopt moves behind the options.
GetoptWith(argv, i, withArg, noArg) ==
    LET j == NextOptionIndex(argv, i)
        skipped == SubSeq(argv, i, j - 1)
    IN  IF j > Len(argv)
        THEN [opt |-> "EOF", optarg |-> <<>>, next |-> j, skipped |-> skipped]
        ELSE IF argv[j] = DashDash
        THEN [opt |-> "EOF", optarg |-> <<>>, next |-> Len(argv) + 1,
              skipped |-> skipped \o SubSeq(argv, j + 1, Len(argv))]
        ELSE IF argv[j][2] \in noArg
        THEN [opt |-> argv[j][2], optarg |-> <<>>, next |-> j + 1,
              skipped |-> skipped]
        ELSE IF argv[j][2] \in withArg /\ j < Len(argv)
        THEN [opt |-> argv[j][2], optarg |-> argv[j + 1], next |-> j + 2,
              skipped |-> skipped]
        ELSE [opt |-> "?", optarg |-> <<>>, next |-> j + 1, skipped |-> skipped]

\* (variant: the optstring "s:c:b:f:lh:", -h taking an argument)
getopt_hArg(argv, i) == GetoptWith(argv, i, OptsWithArg \cup {"h"}, OptsNoArg \ {"h"})

\* getopt(argc, argv, "s:c:b:f:lh")
getopt(argv, i) == GetoptWith(argv, i, OptsWithArg, OptsNoArg)

\* tokens for numeric arguments
Dec(n) == DecimalText(n)
\* 2^32, 2^32 + 3 and -(2^32 - 3): values of a long that no int holds
TwoTo32 == <<"4", "2", "9", "4", "9", "6", "7", "2", "9", "6">>
TwoTo32Plus3 == <<"4", "2", "9", "4", "9", "6", "7", "2", "9", "9">>
MinusTwoTo32Minus3 == <<"-", "4", "2", "9", "4", "9", "6", "7", "2", "9", "3">>
\* arguments that are not integers: no digit at all, digits followed by
\* other characters
Garbage == {<<"x">>, <<"2", "x">>}
WideValues == {TwoTo32, TwoTo32Plus3, MinusTwoTo32Minus3}

EdgeValues(flag) ==
    IF flag = OptS THEN {Dec(0), Dec(INTERVAL_MIN), Dec(INTERVAL_MAX), Dec(INTERVAL_MAX + 1)}
    ELSE IF flag = OptC THEN {Dec(0), Dec(ITERATION_MAX), Dec(ITERATION_MAX + 1)}
    ELSE IF flag = OptF THEN {Dec(FAILURE_MAX), Dec(FAILURE_MAX + 1)}
    ELSE {Dec(BS_MAX), Dec(BS_MAX + 1)}

NumericFlags == {OptS, OptC, OptF, OptB}

\* one numeric option with a value at or next to its bounds, a wide value
\* or a non-integer, every other option at its default
EdgeCmdLines ==
    {<<flag, v, PathA>> :
       flag \in NumericFlags,
       v \in UNION {EdgeValues(f) : f \in NumericFlags}
             \cup {Dec(0 - 1)} \cup WideValues \cup Garbage}

\* complete runs: small iteration counts, failure limits and block sizes
LoopCmdLines ==
    {l \o <<OptC, Dec(c), OptF, Dec(f), OptB, Dec(b), PathA>> :
       l \in {<<>>, <<OptL>>}, c \in 1..MaxIter, f \in 0..MaxFail, b \in {0, 1, 4}}

\* -h before, after and between other arguments
HelpCmdLines ==
    { <<OptH>>, <<OptH, PathA>>, <<PathA, OptH>>, <<OptL, OptH, PathA, PathB>>,
      <<OptS, Dec(0), OptH, PathA>>, <<OptH, OptS, Dec(0)>>,
      <<OptC, Dec(2), OptH>>, <<OptC, <<"x">>, OptH, PathA>>,
      <<OptX, OptH>>, <<OptH, OptX>>, <<OptH, PathA, PathB>>,
      <<OptB, TwoTo32, OptH>>, <<OptF, <<"x">>, OptH>> }

\* zero, one and two positional arguments, unknown options, a missing
\* option argument, options after the file name, "--"
PositionalCmdLines ==
    { <<>>, <<PathA>>, <<PathB>>, <<PathA, PathB>>, <<OptL>>,
      <<OptC, Dec(2), PathA, PathB>>, <<PathA, OptC, Dec(1)>>,
      <<PathA, OptC, Dec(1), PathB>>, <<OptS>>, <<PathA, OptS>>,
      <<OptX, PathA>>, <<DashDash, PathA>>, <<OptL, DashDash, PathA, PathB>>,
      <<OptC, Dec(2), OptC, Dec(1), PathA>>, <<OptC, Dec(1), OptC, Dec(0), PathA>> }

CmdLines == EdgeCmdLines \cup LoopCmdLines \cup HelpCmdLines \cup PositionalCmdLines

\* two processes on the same path, each with -l: runs of 1..MaxIter - 1
\* iterations, without a failure limit or ending at the first failed write
LockCmdLines ==
    {<<OptL, OptC, Dec(c), OptF, Dec(f), PathA>> :
       c \in 1..(MaxIter - 1), f \in {0, 1}}
    \cup {<<OptL, OptS, Dec(1), OptB, Dec(0), OptH>>, <<OptL, OptX, PathA>>}

\* one process whose run is followed to its end: the complete runs, a
\* help line and an unknown option
LiveCmdLines ==
    LoopCmdLines \cup {<<OptS, Dec(2), OptH>>, <<OptX, PathA>>}

\* two runs with the same flags, each on its own path: runs of
\* 1..MaxIter - 1 iterations, with and without -l, without a failure limit
\* or ending at the first failed write, writing the index text or a block
PairFlags ==
    {l \o <<OptC, Dec(c), OptF, Dec(f), OptB, Dec(b)>> :
       l \in {<<>>, <<OptL>>}, c \in 1..(MaxIter - 1), f \in {0, 1}, b \in {0, 4}}
    \cup {<<OptS, Dec(1), OptH>>, <<OptX>>}
PathOf(p) == IF p = 1 THEN PathA ELSE PathB

(***************************************************************************)
(* State.                                                                  *)
(***************************************************************************)
VARIABLES
    cmdline,     \* argv[1..] of each process
    pc,          \* where each process is
    optind,      \* main: index of the next token getopt looks at
    nonopts,     \* main: the non-option tokens getopt has passed over
    opts,        \* main: interval, iterations, failmax (long),
                 \*       excl_lock, blocksize (int)
    filename,    \* line_writer: the path
    iter,        \* line_writer: iteration index
    failures,    \* line_writer: consecutive write failures
    write_buf,   \* line_writer: the content of the write buffer
    heap,        \* the write buffer: "none", "allocated", "freed", "reclaimed"
    fd,          \* the file descriptor: "none", "open", "closed", "reclaimed"
    pos,         \* file offset of the open file description
    exitStatus,  \* exit status of the process once pc = "exited"
    outcome,     \* the path by which the process ended
    trace,       \* what the process did: usage, messages, writes, sleeps
    files,       \* the file system: path -> [exists, data]
    lockHolders  \* flock: path -> the processes holding LOCK_EX on the file

mainVars == <<optind, nonopts, opts>>
loopVars == <<filename, iter, failures, write_buf, heap, fd, pos>>
envVars == <<files, lockHolders>>
vars == <<cmdline, pc, optind, nonopts, opts, filename, iter, failures,
          write_buf, heap, fd, pos, exitStatus, outcome, trace, files, lockHolders>>

Absent == [exists |-> FALSE, data |-> <<>>]
FileOf(d) == [exists |-> TRUE, data |-> d]
\* content of a file left by an earlier run
OldData == RText(<<"9", "9", "LF">>)

\* main's locals before getopt
OptsDefault ==
    [interval |-> LongOfNat(INTERVAL_DEFAULT),
     iterations |-> LongOfNat(ITERATION_MAX),
     failmax |-> LongOfNat(FAILURE_DEFAULT),
     excl_lock |-> 0,
     blocksize |-> 0]

InitProc ==
    /\ optind = [p \in Procs |-> 1]
    /\ nonopts = [p \in Procs |-> <<>>]
    /\ opts = [p \in Procs |-> OptsDefault]
    /\ filename = [p \in Procs |-> <<>>]
    /\ iter = [p \in Procs |-> 0]
    /\ failures = [p \in Procs |-> 0]
    /\ write_buf = [p \in Procs |-> <<>>]
    /\ heap = [p \in Procs |-> "none"]
    /\ fd = [p \in Procs |-> "none"]
    /\ pos = [p \in Procs |-> 0]
    /\ exitStatus = [p \in Procs |-> EXIT_SUCCESS]
    /\ outcome = [p \in Procs |-> "running"]
    /\ trace = [p \in Procs |-> <<>>]
    /\ lockHolders = [f \in Paths |-> {}]

\* one process, any command line, the target absent or left by an earlier run
Init ==
    /\ InitProc
    /\ \E cl \in CmdLines : cmdline = [p \in Procs |-> IF p = 1 THEN cl ELSE <<>>]
    /\ pc = [p \in Procs |-> IF p = 1 THEN "getopt" ELSE "idle"]
    /\ \E f \in {Absent, FileOf(OldData)} :
          files = [q \in Paths |-> IF q = PathA THEN f ELSE Absent]

\* two processes with -l on the same path
InitLock ==
    /\ InitProc
    /\ cmdline \in [Procs -> LockCmdLines]
    /\ pc = [p \in Procs |-> "getopt"]
    /\ files = [q \in Paths |-> Absent]

\* one process on a run that is followed to its end, the target absent or
\* left by an earlier run
InitLive ==
    /\ InitProc
    /\ \E cl \in LiveCmdLines : cmdline = [p \in Procs |-> IF p = 1 THEN cl ELSE <<>>]
    /\ pc = [p \in Procs |-> IF p = 1 THEN "getopt" ELSE "idle"]
    /\ \E f \in {Absent, FileOf(OldData)} :
          files = [q \in Paths |-> IF q = PathA THEN f ELSE Absent]

\* two processes with the same flags, each on a path of its own that does
\* not exist yet
InitPair ==
    /\ InitProc
    /\ \E fl \in PairFlags : cmdline = [p \in Procs |-> fl \o <<PathOf(p)>>]
    /\ pc = [p \in Procs |-> "getopt"]
    /\ files = [q \in Paths |-> Absent]

(***************************************************************************)
(* The process as a whole.                                                 *)
(***************************************************************************)
Ev(kind) == <<kind, 0, 0, 0>>
Log(p, e) == trace' = [trace EXCEPT ![p] = Append(@, e)]

\* The process ends (exit(), or main returning): the kernel closes a
\* descriptor left open, which drops a flock held through it, and reclaims
\* the heap.
ProcessEnds(p, status, how) ==
    /\ pc' = [pc EXCEPT ![p] = "exited"]
    /\ exitStatus' = [exitStatus EXCEPT ![p] = status]
    /\ outcome' = [outcome EXCEPT ![p] = how]
    /\ fd' = [fd EXCEPT ![p] = IF @ = "open" THEN "reclaimed" ELSE @]
    /\ heap' = [heap EXCEPT ![p] = IF @ = "allocated" THEN "reclaimed" ELSE @]
    /\ lockHolders' = [f \in Paths |-> lockHolders[f] \ {p}]

\* exit() in main, before any descriptor or buffer exists
MainExits(p, status, how, msg) ==
    /\ ProcessEnds(p, status, how)
    /\ Log(p, Ev(msg))
    /\ UNCHANGED <<cmdline, filename, iter, failures, write_buf, pos, files>>

(***************************************************************************)
(* main: the getopt loop.                                                  *)
(***************************************************************************)
\* the value checks of main's switch
SleepInvalid(v) == v = LongZero \/ LongGt(v, INTERVAL_MAX) \/ LongLt(v, INTERVAL_MIN)
IterationsInvalid(v) == v = LongZero \/ LongIsNeg(v) \/ LongGt(v, ITERATION_MAX)
FailmaxInvalid(v) == LongIsNeg(v) \/ LongGt(v, FAILURE_MAX)
\* blocksize is an int: the long atol returns is converted on assignment
BlocksizeOf(v) == Int32Of(v)
BlocksizeInvalid(b) == b < 0 \/ b > BS_MAX

Scan(p) == getopt(cmdline[p], optind[p])
Advance(p, g) ==
    /\ optind' = [optind EXCEPT ![p] = g.next]
    /\ nonopts' = [nonopts EXCEPT ![p] = @ \o g.skipped]

\* what a case of the switch leaves unchanged when it breaks
OptionKept ==
    /\ UNCHANGED <<cmdline, pc, exitStatus, outcome, trace>>
    /\ UNCHANGED loopVars
    /\ UNCHANGED envVars

\* case 'h'
OptHelp(p) ==
    /\ pc[p] = "getopt"
    /\ Scan(p).opt = "h"
    /\ Advance(p, Scan(p))
    /\ UNCHANGED opts
    /\ MainExits(p, EXIT_SUCCESS, "help", "usage")

\* case 's'
OptSleep(p) ==
    /\ pc[p] = "getopt"
    /\ Scan(p).opt = "s"
    /\ Advance(p, Scan(p))
    /\ LET v == atol(Scan(p).optarg) IN
         /\ opts' = [opts EXCEPT ![p].interval = v]
         /\ IF SleepInvalid(v)
            THEN MainExits(p, EXIT_FAILURE, "config_error", "err_sleep")
            ELSE OptionKept

\* case 'c'
OptCount(p) ==
    /\ pc[p] = "getopt"
    /\ Scan(p).opt = "c"
    /\ Advance(p, Scan(p))
    /\ LET v == atol(Scan(p).optarg) IN
         /\ opts' = [opts EXCEPT ![p].iterations = v]
         /\ IF IterationsInvalid(v)
            THEN MainExits(p, EXIT_FAILURE, "config_error", "err_iterations")
            ELSE OptionKept

\* case 'f'
OptFail(p) ==
    /\ pc[p] = "getopt"
    /\ Scan(p).opt = "f"
    /\ Advance(p, Scan(p))
    /\ LET v == atol(Scan(p).optarg) IN
         /\ opts' = [opts EXCEPT ![p].failmax = v]
         /\ IF FailmaxInvalid(v)
            THEN MainExits(p, EXIT_FAILURE, "config_error", "err_failmax")
            ELSE OptionKept

\* case 'b'
OptBlock(p) ==
    /\ pc[p] = "getopt"
    /\ Scan(p).opt = "b"
    /\ Advance(p, Scan(p))
    /\ LET b == BlocksizeOf(atol(Scan(p).optarg)) IN
         /\ opts' = [opts EXCEPT ![p].blocksize = b]
         /\ IF BlocksizeInvalid(b)
            THEN MainExits(p, EXIT_FAILURE, "config_error", "err_blocksize")
            ELSE OptionKept

\* case 'l'
OptLock(p) ==
    /\ pc[p] = "getopt"
    /\ Scan(p).opt = "l"
    /\ Advance(p, Scan(p))
    /\ opts' = [opts EXCEPT ![p].excl_lock = 1]
    /\ OptionKept

\* default: an unknown option or a missing option argument
OptGibberish(p) ==
    /\ pc[p] = "getopt"
    /\ Scan(p).opt = "?"
    /\ Advance(p, Scan(p))
    /\ UNCHANGED opts
    /\ MainExits(p, EXIT_FAILURE, "config_error", "err_gibberish")

\* (variant: only a missing file name is an error)
WrongFilenameCount_none(left) == left < 1

\* optind + 1 != argc, for the number of arguments left at optind
WrongFilenameCount(left) == left # 1

\* getopt returns -1: optind + 1 != argc unless exactly one non-option
\* argument is left; with one, main calls line_writer
ParseEnd(p) ==
    /\ pc[p] = "getopt"
    /\ Scan(p).opt = "EOF"
    /\ Advance(p, Scan(p))
    /\ UNCHANGED opts
    /\ LET positional == nonopts[p] \o Scan(p).skipped IN
         IF WrongFilenameCount(Len(positional))
         THEN MainExits(p, EXIT_FAILURE, "config_error", "err_filename")
         ELSE /\ pc' = [pc EXCEPT ![p] = "line_writer"]
              /\ filename' = [filename EXCEPT ![p] = positional[1]]
              /\ UNCHANGED <<cmdline, iter, failures, write_buf, heap, fd, pos,
                             exitStatus, outcome, trace>>
              /\ UNCHANGED envVars

\* the arguments main hands to line_writer: (int) casts of its locals
interval(p) == Int32Of(opts[p].interval)
iterations(p) == Int32Of(opts[p].iterations)
failmax(p) == Int32Of(opts[p].failmax)
blocksize(p) == opts[p].blocksize
excl_lock(p) == opts[p].excl_lock

\* main ignores what line_writer returns and returns 0
MainReturn(ret) == EXIT_SUCCESS

(***************************************************************************)
(* line_writer.                                                            *)
(***************************************************************************)
\* write_buf_size
WriteBufSize(bs) == IF bs > BS_DEF THEN bs ELSE BS_DEF

\* line_writer returns ret to main, which returns: the process ends
LineWriterReturns(p, ret, how) == ProcessEnds(p, MainReturn(ret), how)

\* malloc and memset(write_buf, '\r', write_buf_size)
LineWriterEnter(p) ==
    /\ pc[p] = "line_writer"
    /\ write_buf' = [write_buf EXCEPT ![p] = RFill("CR", WriteBufSize(blocksize(p)))]
    /\ heap' = [heap EXCEPT ![p] = "allocated"]
    /\ pc' = [pc EXCEPT ![p] = "open"]
    /\ UNCHANGED <<cmdline, filename, iter, failures, fd, pos, exitStatus, outcome, trace>>
    /\ UNCHANGED mainVars
    /\ UNCHANGED envVars

\* (variant: the open without O_TRUNC)
OpenedFile_keep(f) == IF f.exists THEN f ELSE FileOf(<<>>)

\* what open() with O_WRONLY|O_CREAT|O_TRUNC|O_SYNC leaves of the file
OpenedFile(f) == FileOf(<<>>)

\* the for loop's test, also taken on entry with iter = 0
LoopTest(p, i) == IF i < iterations(p) THEN "write" ELSE "close"

\* (variant: the flock() call left out)
AfterOpen_nolock(p) == LoopTest(p, 0)

\* after the open: flock() when excl_lock is set, else the loop
AfterOpen(p) == IF excl_lock(p) # 0 THEN "flock" ELSE LoopTest(p, 0)

\* open() succeeds: the file is created or truncated, the offset is 0
OpenOk(p) ==
    /\ pc[p] = "open"
    /\ files' = [files EXCEPT ![filename[p]] = OpenedFile(@)]
    /\ fd' = [fd EXCEPT ![p] = "open"]
    /\ pos' = [pos EXCEPT ![p] = 0]
    /\ iter' = [iter EXCEPT ![p] = 0]
    /\ pc' = [pc EXCEPT ![p] = AfterOpen(p)]
    /\ UNCHANGED <<cmdline, filename, failures, write_buf, heap, exitStatus,
                   outcome, trace, lockHolders>>
    /\ UNCHANGED mainVars

\* open() returns -1: message, return 1
OpenFails(p) ==
    /\ pc[p] = "open"
    /\ Log(p, Ev("err_open"))
    /\ LineWriterReturns(p, 1, "open_error")
    /\ UNCHANGED <<cmdline, filename, iter, failures, write_buf, pos, files>>
    /\ UNCHANGED mainVars

\* flock(fd, LOCK_EX) is entered: the call blocks until the lock is free
FlockCall(p) ==
    /\ pc[p] = "flock"
    /\ pc' = [pc EXCEPT ![p] = "flock_wait"]
    /\ UNCHANGED <<cmdline, exitStatus, outcome, trace>>
    /\ UNCHANGED mainVars
    /\ UNCHANGED loopVars
    /\ UNCHANGED envVars

\* flock() returns -1: message, return 1
FlockFails(p) ==
    /\ pc[p] = "flock"
    /\ Log(p, Ev("err_flock"))
    /\ LineWriterReturns(p, 1, "lock_error")
    /\ UNCHANGED <<cmdline, filename, iter, failures, write_buf, pos, files>>
    /\ UNCHANGED mainVars

\* (variant: a lock that does not exclude, as LOCK_SH)
FlockGranted_shared(others) == TRUE

\* LOCK_EX is granted when no other open file description holds a lock
FlockGranted(others) == others = {}

\* flock() returns 0 once the lock is granted
FlockAcquire(p) ==
    /\ pc[p] = "flock_wait"
    /\ FlockGranted(lockHolders[filename[p]] \ {p})
    /\ lockHolders' = [lockHolders EXCEPT ![filename[p]] = @ \cup {p}]
    /\ pc' = [pc EXCEPT ![p] = LoopTest(p, 0)]
    /\ UNCHANGED <<cmdline, exitStatus, outcome, trace, files>>
    /\ UNCHANGED mainVars
    /\ UNCHANGED loopVars

\* (variant: iterations counted from 1)
StrBuf_onebased(i) == DecimalText(i + 1) \o <<"LF">>

\* sprintf(str_buf, "%d\n", iter)
StrBuf(i) == DecimalText(i) \o <<"LF">>
\* strcpy(write_buf, str_buf): the text and its terminating zero byte
StrCpy(buf, str) == RCat(RText(str \o <<"NUL">>), RDrop(buf, Len(str) + 1))
\* write_actual
WriteActual(bs, str) == IF bs # 0 THEN bs ELSE Len(str)

\* what write() may return for n bytes asked: -1, n, or fewer than n
ShortCounts(n) == {k \in {1, n - 1} : k >= 1 /\ k < n}
WriteReturns(n) == {0 - 1, n} \cup ShortCounts(n)

\* (variant: the limit test without its failmax > 0 guard)
ReachedMaxFail_unguarded(fails, fmax, ws) == ws = 0 - 1 /\ fails + 1 >= fmax
\* (variant: the limit test one failure late)
ReachedMaxFail_late(fails, fmax, ws) == ws = 0 - 1 /\ fmax > 0 /\ fails = fmax

\* (variant: a write that did not fail leaves the counter as it is)
FailuresAfter_noreset(fails, fmax, ws) ==
    IF ws = 0 - 1 THEN (IF fmax > 0 THEN fails + 1 ELSE fails) ELSE fails
\* (variant: failures counted whatever failmax is)
FailuresAfter_unguarded(fails, fmax, ws) == IF ws = 0 - 1 THEN fails + 1 ELSE 0

\* the failure counter after a write that returned ws
FailuresAfter(fails, fmax, ws) ==
    IF ws = 0 - 1 THEN (IF fmax > 0 THEN fails + 1 ELSE fails) ELSE 0
\* the write failed and the limit is reached: exit(EXIT_FAILURE)
ReachedMaxFail(fails, fmax, ws) ==
    ws = 0 - 1 /\ fmax > 0 /\ fails + 1 = fmax

\* (variant: a failed write is tried again with the same index)
IterAfter_retry(i, ws) == IF ws = 0 - 1 THEN i ELSE i + 1

\* (variant: a failed write skips the next index)
IterAfter_skip(i, ws) == IF ws = 0 - 1 THEN i + 2 ELSE i + 1

\* ++iter, whatever the write returned
IterAfter(i, ws) == i + 1
\* (variant: a sleep after every iteration, the last one too)
AfterIter_always(i, n) == "sleep"

\* if (++iter < iterations) sleep(interval); then the loop test
AfterIter(i, n) == IF i < n THEN "sleep" ELSE "close"

\* the file offset after a write of ws bytes
PosAfter(at, ws) == at + ws

NumWrites(tr) == Cardinality({k \in 1..Len(tr) : tr[k][1] = "write"})

\* One pass of the loop body up to the sleep: build the payload, write(),
\* classify what it returned, report, ++iter and the loop test.
WriteIter(p) ==
    /\ pc[p] = "write"
    /\ NumWrites(trace[p]) < MaxWrites
    /\ LET str == StrBuf(iter[p])
           buf == StrCpy(write_buf[p], str)
           n == WriteActual(blocksize(p), str)
       IN  \E ws \in WriteReturns(n) :
             /\ write_buf' = [write_buf EXCEPT ![p] = buf]
             /\ IF ws = 0 - 1
                THEN UNCHANGED <<files, pos>>
                ELSE /\ files' = [files EXCEPT ![filename[p]] =
                                    FileOf(ROverlay(@.data, pos[p], RTake(buf, ws)))]
                     /\ pos' = [pos EXCEPT ![p] = PosAfter(@, ws)]
             /\ failures' = [failures EXCEPT ![p] = FailuresAfter(@, failmax(p), ws)]
             /\ IF ReachedMaxFail(failures[p], failmax(p), ws)
                THEN /\ trace' = [trace EXCEPT ![p] =
                                    @ \o << <<"write", iter[p], n, ws>>, Ev("err_maxfail") >>]
                     /\ ProcessEnds(p, EXIT_FAILURE, "failed_fatal")
                     /\ UNCHANGED iter
                ELSE /\ Log(p, <<"write", iter[p], n, ws>>)
                     /\ iter' = [iter EXCEPT ![p] = IterAfter(@, ws)]
                     /\ pc' = [pc EXCEPT ![p] = AfterIter(IterAfter(iter[p], ws), iterations(p))]
                     /\ UNCHANGED <<heap, fd, exitStatus, outcome, lockHolders>>
             /\ UNCHANGED <<cmdline, filename>>
             /\ UNCHANGED mainVars

\* (variant: a sleep that does not return)
Sleep_never(p) == FALSE /\ UNCHANGED vars

\* sleep(interval)
Sleep(p) ==
    /\ pc[p] = "sleep"
    /\ Log(p, <<"sleep", interval(p), 0, 0>>)
    /\ pc' = [pc EXCEPT ![p] = "write"]
    /\ UNCHANGED <<cmdline, exitStatus, outcome>>
    /\ UNCHANGED mainVars
    /\ UNCHANGED loopVars
    /\ UNCHANGED envVars

\* close(fd), which drops the flock; free(write_buf); return 0
CloseAndReturn(p) ==
    /\ pc[p] = "close"
    /\ pc' = [pc EXCEPT ![p] = "exited"]
    /\ fd' = [fd EXCEPT ![p] = "closed"]
    /\ heap' = [heap EXCEPT ![p] = "freed"]
    /\ lockHolders' = [f \in Paths |-> lockHolders[f] \ {p}]
    /\ exitStatus' = [exitStatus EXCEPT ![p] = MainReturn(0)]
    /\ outcome' = [outcome EXCEPT ![p] = "completed"]
    /\ UNCHANGED <<cmdline, filename, iter, failures, write_buf, pos, trace, files>>
    /\ UNCHANGED mainVars

ProcStep(p) ==
    \/ OptHelp(p)
    \/ OptSleep(p)
    \/ OptCount(p)
    \/ OptFail(p)
    \/ OptBlock(p)
    \/ OptLock(p)
    \/ OptGibberish(p)
    \/ ParseEnd(p)
    \/ LineWriterEnter(p)
    \/ OpenOk(p)
    \/ OpenFails(p)
    \/ FlockCall(p)
    \/ FlockFails(p)
    \/ FlockAcquire(p)
    \/ WriteIter(p)
    \/ Sleep(p)
    \/ CloseAndReturn(p)

Next == \E p \in Procs : ProcStep(p)

Spec == Init /\ [][Next]_vars

\* One process that is never held up: every call it makes returns (the
\* kernel schedules it, write() and sleep() return).
SpecLive == InitLive /\ [][Next]_vars /\ WF_vars(ProcStep(1))

\* Two independent runs with the same flags, each on its own path.
SpecPair == InitPair /\ [][Next]_vars

\* Two processes: the kernel wakes a process blocked in flock() once the
\* lock is free, and a runnable process is scheduled.
SpecLock ==
    /\ InitLock
    /\ [][Next]_vars
    /\ \A p \in Procs : WF_vars(ProcStep(p))

(***************************************************************************)
(* Vocabulary of the properties.                                           *)
(***************************************************************************)
IsWrite(e) == e[1] = "write"
\* the write calls of a trace, in order: <<"write", index, asked, returned>>
Writes(tr) == SelectSeq(tr, IsWrite)
Failed(w) == w[4] = 0 - 1
Full(w) == w[4] = w[3]
HasEvent(tr, kind) == \E k \in 1..Len(tr) : tr[k][1] = kind

\* number of failed writes since the last write that did not fail
RECURSIVE TrailingFails(_)
TrailingFails(ws) ==
    IF ws = <<>> \/ ~Failed(ws[Len(ws)]) THEN 0
    ELSE 1 + TrailingFails(SubSeq(ws, 1, Len(ws) - 1))

\* some f writes in a row failed
LimitReached(ws, f) ==
    f >= 1 /\ \E j \in f..Len(ws) : \A k \in (j - f + 1)..j : Failed(ws[k])

Min(a, b) == IF a < b THEN a ELSE b
InLoop(p) == pc[p] \in {"write", "sleep", "close"}
Exited(p) == pc[p] = "exited"
\* the process got as far as the loop
EnteredLoop(p) == InLoop(p) \/ outcome[p] \in {"completed", "failed_fatal"}

(***************************************************************************)
(* C1: with 1 <= -f <= 100, as soon as -f writes in a row have failed the  *)
(* process has exited with failure status and that failed write is the     *)
(* last thing it did (no further write or sleep); no run has more than -f  *)
(* failed writes in a row; a run in which every write failed and that has  *)
(* ended did exactly min(-f, -c) writes.                                   *)
(***************************************************************************)
C1_FailureLimit ==
    \A p \in Procs :
      LET ws == Writes(trace[p])
          f == failmax(p)
          k == TrailingFails(ws)
      IN  (EnteredLoop(p) /\ f >= 1 /\ f <= FAILURE_MAX) =>
            /\ k <= f
            /\ k = f =>
                 /\ Exited(p)
                 /\ exitStatus[p] # EXIT_SUCCESS
                 /\ Len(trace[p]) >= 2
                 /\ IsWrite(trace[p][Len(trace[p]) - 1])
                 /\ trace[p][Len(trace[p])] = Ev("err_maxfail")
            /\ (Exited(p) /\ \A j \in 1..Len(ws) : Failed(ws[j])) =>
                 Len(ws) = Min(f, iterations(p))

\* a success, then -f = 2 failures in a row: the run ended there
C1_Witness ==
    \E p \in Procs :
      /\ Exited(p) /\ failmax(p) = 2 /\ iterations(p) = 3
      /\ Len(Writes(trace[p])) = 3
      /\ ~Failed(Writes(trace[p])[1])
      /\ TrailingFails(Writes(trace[p])) = 2

(***************************************************************************)
(* C2: the exit status is non-zero whenever open() failed or, with -l,     *)
(* flock() failed; it is 0 only after all iterations completed or after    *)
(* the help display.                                                       *)
(***************************************************************************)
C2_ExitStatus ==
    \A p \in Procs :
      Exited(p) =>
        /\ (HasEvent(trace[p], "err_open") \/ HasEvent(trace[p], "err_flock"))
              => exitStatus[p] # EXIT_SUCCESS
        /\ exitStatus[p] = EXIT_SUCCESS =>
              \/ HasEvent(trace[p], "usage")
              \/ Len(Writes(trace[p])) = iterations(p)

(***************************************************************************)
(* C3: the writes of a run carry the indices 0, 1, 2, ... in order, each   *)
(* once, never more than -c of them; a run that has ended after entering   *)
(* the loop without -f failures in a row did exactly -c writes, completed  *)
(* the loop and exited with status 0.                                      *)
(***************************************************************************)
C3_ExactlyCountWrites ==
    \A p \in Procs :
      LET ws == Writes(trace[p]) IN
        /\ \A k \in 1..Len(ws) : ws[k][2] = k - 1
        /\ EnteredLoop(p) => Len(ws) <= iterations(p)
        /\ (Exited(p) /\ EnteredLoop(p) /\ ~LimitReached(ws, failmax(p))) =>
             /\ Len(ws) = iterations(p)
             /\ outcome[p] = "completed"
             /\ exitStatus[p] = EXIT_SUCCESS

\* -c 3 completed with a failed and a short write among the three
C3_Witness ==
    \E p \in Procs :
      LET ws == Writes(trace[p]) IN
        /\ Exited(p) /\ outcome[p] = "completed" /\ iterations(p) = 3
        /\ Len(ws) = 3
        /\ \E j \in 1..3 : Failed(ws[j])
        /\ \E j \in 1..3 : ~Failed(ws[j]) /\ ~Full(ws[j])

(***************************************************************************)
(* C4: with -f 0 no write failure ends the run: the process never takes    *)
(* the fatal exit, and once it has ended after entering the loop it has    *)
(* done all -c iterations and completed.                                   *)
(***************************************************************************)
C4_UnlimitedFailures ==
    \A p \in Procs :
      (EnteredLoop(p) /\ failmax(p) = 0) =>
        /\ outcome[p] # "failed_fatal"
        /\ ~HasEvent(trace[p], "err_maxfail")
        /\ Exited(p) =>
             /\ Len(Writes(trace[p])) = iterations(p)
             /\ outcome[p] = "completed"

\* -f 0, -c 3, every write failed, the run completed
C4_Witness ==
    \E p \in Procs :
      LET ws == Writes(trace[p]) IN
        /\ Exited(p) /\ failmax(p) = 0 /\ iterations(p) = 3
        /\ Len(ws) = 3 /\ \A j \in 1..3 : Failed(ws[j])
        /\ outcome[p] = "completed"

(***************************************************************************)
(* C5: with -b 0 and every write so far written in full.                   *)
(***************************************************************************)
\* the texts of iterations 0..i one after the other
RECURSIVE TextsUpTo(_)
TextsUpTo(i) ==
    IF i < 0 THEN <<>> ELSE TextsUpTo(i - 1) \o DecimalText(i) \o <<"LF">>

AllFull(ws) == \A j \in 1..Len(ws) : Full(ws[j])
LastIndex(ws) == ws[Len(ws)][2]

\* C5 as claimed: with -b 0 and all writes in full, the content of the
\* file after the write of iteration i is the decimal text of i followed
\* by one newline.
C5_Original ==
    \A p \in Procs :
      LET ws == Writes(trace[p]) IN
        (blocksize(p) = 0 /\ ws # <<>> /\ AllFull(ws)) =>
          files[filename[p]].data = RText(DecimalText(LastIndex(ws)) \o <<"LF">>)

\* C5 as amended: with -b 0 and all writes in full, the content of the
\* file after the write of iteration i is the texts of the iterations
\* 0, 1, ..., i one after the other, each followed by one newline (after
\* -c 3 -b 0: "0\n1\n2\n"); nothing of an earlier content is left.
C5_Amended ==
    \A p \in Procs :
      LET ws == Writes(trace[p]) IN
        (blocksize(p) = 0 /\ ws # <<>> /\ AllFull(ws)) =>
          /\ files[filename[p]].exists
          /\ files[filename[p]].data = RText(TextsUpTo(LastIndex(ws)))

\* -c 3 -b 0 has ended with all writes in full: the file holds "0\n1\n2\n"
C5_Witness ==
    \E p \in Procs :
      LET ws == Writes(trace[p]) IN
        /\ Exited(p) /\ blocksize(p) = 0 /\ iterations(p) = 3
        /\ Len(ws) = 3 /\ AllFull(ws)
        /\ files[filename[p]].data = RText(<<"0", "LF", "1", "LF", "2", "LF">>)

(***************************************************************************)
(* What a command line says, read as text.                                 *)
(***************************************************************************)
Unsigned(t) == IF t # <<>> /\ t[1] \in {"-", "+"} THEN Tail(t) ELSE t
\* an optional sign and then digits only, at least one
IsIntegerText(t) ==
    /\ Unsigned(t) # <<>>
    /\ \A k \in 1..Len(Unsigned(t)) : IsDigit(Unsigned(t)[k])

RECURSIVE StripZeros(_)
StripZeros(d) == IF Len(d) > 1 /\ d[1] = "0" THEN StripZeros(Tail(d)) ELSE d

RECURSIVE DigitsValue(_)
DigitsValue(d) ==
    IF d = <<>> THEN 0
    ELSE DigitsValue(SubSeq(d, 1, Len(d) - 1)) * 10 + DigitVal(d[Len(d)])

\* the integer the text denotes lies in lo..hi (bounds below 10^9)
DenotesWithin(t, lo, hi) ==
    /\ IsIntegerText(t)
    /\ Len(StripZeros(Unsigned(t))) <= 9
    /\ LET m == DigitsValue(StripZeros(Unsigned(t)))
           v == IF t[1] = "-" THEN 0 - m ELSE m
       IN  lo <= v /\ v <= hi
\* the integer the text denotes, for a text that denotes one of at most 9 digits
Denoted(t) ==
    LET m == DigitsValue(StripZeros(Unsigned(t)))
    IN  IF t[1] = "-" THEN 0 - m ELSE m

\* the bounds the specification gives each numeric flag
LowerBound(flag) == IF flag = OptS \/ flag = OptC THEN 1 ELSE 0
UpperBound(flag) ==
    IF flag = OptS THEN INTERVAL_MAX
    ELSE IF flag = OptC THEN ITERATION_MAX
    ELSE IF flag = OptF THEN FAILURE_MAX
    ELSE BS_MAX
ArgInBounds(flag, t) == DenotesWithin(t, LowerBound(flag), UpperBound(flag))

\* the numeric options of a command line with their arguments, in order
RECURSIVE NumericOptions(_)
NumericOptions(cl) ==
    IF cl = <<>> \/ cl[1] = DashDash THEN <<>>
    ELSE IF cl[1] \in NumericFlags /\ Len(cl) >= 2
    THEN << <<cl[1], cl[2]>> >> \o NumericOptions(SubSeq(cl, 3, Len(cl)))
    ELSE NumericOptions(Tail(cl))

HasHelp(cl) == \E k \in 1..Len(cl) : cl[k] = OptH
\* the process never opened the file and, once ended, ended in failure
RejectedUnopened(p) ==
    /\ fd[p] = "none"
    /\ pc[p] \in {"getopt", "exited"}
    /\ Exited(p) => exitStatus[p] # EXIT_SUCCESS
\* the process is in line_writer or went through it
ReachedLineWriter(p) ==
    \/ pc[p] \in {"line_writer", "open", "flock", "flock_wait", "write", "sleep", "close"}
    \/ Exited(p) /\ outcome[p] \notin {"help", "config_error"}
\* the value line_writer is given for a flag
Used(p, flag) ==
    IF flag = OptS THEN interval(p)
    ELSE IF flag = OptC THEN iterations(p)
    ELSE IF flag = OptF THEN failmax(p)
    ELSE blocksize(p)

(***************************************************************************)
(* C6: a numeric flag argument that is not a valid integer is a fatal      *)
(* configuration error: failure exit status, the file never opened.        *)
(* (Command lines with -h are left to C8.)                                 *)
(***************************************************************************)
C6_NonIntegerRejected ==
    \A p \in Procs :
      LET os == NumericOptions(cmdline[p]) IN
        (~HasHelp(cmdline[p]) /\ \E k \in 1..Len(os) : ~IsIntegerText(os[k][2]))
          => RejectedUnopened(p)

(***************************************************************************)
(* C7: an integer argument of a numeric flag is accepted, and used         *)
(* unchanged by the loop, if and only if it lies in the flag's bounds; a   *)
(* value outside them ends the process in failure before the file is       *)
(* opened.  (Command lines with -h are left to C8, non-integers to C6.)    *)
(***************************************************************************)
C7_BoundsChecked ==
    \A p \in Procs :
      LET os == NumericOptions(cmdline[p]) IN
        (~HasHelp(cmdline[p]) /\ \A k \in 1..Len(os) : IsIntegerText(os[k][2])) =>
          /\ (\E k \in 1..Len(os) : ~ArgInBounds(os[k][1], os[k][2]))
                => RejectedUnopened(p)
          /\ ReachedLineWriter(p) =>
                \A k \in 1..Len(os) :
                  (\A j \in (k + 1)..Len(os) : os[j][1] # os[k][1]) =>
                     /\ ArgInBounds(os[k][1], os[k][2])
                     /\ Used(p, os[k][1]) = Denoted(os[k][2])

(***************************************************************************)
(* C8: -h on the command line.                                             *)
(***************************************************************************)
\* usage was printed, nothing else was done, the exit status is success
HelpShown(p) ==
    /\ fd[p] = "none"
    /\ pc[p] \in {"getopt", "exited"}
    /\ Exited(p) =>
         /\ exitStatus[p] = EXIT_SUCCESS
         /\ trace[p] = <<Ev("usage")>>

\* the first n tokens are options the validation accepts: -l, or a numeric
\* flag followed by an integer within its bounds
RECURSIVE AcceptedOptions(_, _)
AcceptedOptions(cl, n) ==
    IF n = 0 THEN TRUE
    ELSE IF cl[1] = OptL THEN AcceptedOptions(Tail(cl), n - 1)
    ELSE IF cl[1] \in NumericFlags /\ n >= 2
    THEN ArgInBounds(cl[1], cl[2]) /\ AcceptedOptions(SubSeq(cl, 3, Len(cl)), n - 2)
    ELSE FALSE

\* C8 as claimed: whenever -h is among the arguments, whatever comes before
\* or after it, the process prints usage, exits with success and opens no
\* file.
C8_Original ==
    \A p \in Procs : HasHelp(cmdline[p]) => HelpShown(p)

\* C8 as amended: whenever -h is on the command line and every token
\* before it belongs to an option that validation accepts (-l, or a
\* numeric flag with an integer within its bounds), the process prints
\* usage, exits with success and opens no file, whatever follows the -h.
C8_Amended ==
    \A p \in Procs :
      (\E k \in 1..Len(cmdline[p]) :
          cmdline[p][k] = OptH /\ AcceptedOptions(cmdline[p], k - 1))
        => HelpShown(p)

\* -h after an accepted option and before two file names: usage, success
C8_Witness ==
    \E p \in Procs :
      /\ cmdline[p] = <<OptL, OptH, PathA, PathB>>
      /\ Exited(p) /\ outcome[p] = "help" /\ exitStatus[p] = EXIT_SUCCESS

(***************************************************************************)
(* Locking.                                                                *)
(***************************************************************************)
\* this step is a write() call of p
WroteNow(p) == Len(Writes(trace'[p])) > Len(Writes(trace[p]))
Holds(p) == \E f \in Paths : f = filename[p] /\ p \in lockHolders[f]
HandleGone(p) == fd[p] \in {"closed", "reclaimed"}

(***************************************************************************)
(* C9: two processes with -l on the same path: at most one holds the lock  *)
(* at any time; a process writes only while no other process holds the     *)
(* lock, every process that entered its loop before having closed its      *)
(* handle or ended; and a process blocked in flock() with the lock free    *)
(* eventually acquires it and does its own writes.                         *)
(***************************************************************************)
C9_ExclusiveLock ==
    /\ [](\A f \in Paths : Cardinality(lockHolders[f]) <= 1)
    /\ [][\A p \in Procs : WroteNow(p) =>
            \A q \in Procs \ {p} :
              /\ q \notin lockHolders[filename[p]]
              /\ EnteredLoop(q) => HandleGone(q)]_vars
    /\ \A p \in Procs :
         (pc[p] = "flock_wait" /\ lockHolders[filename[p]] = {})
            ~> (Writes(trace[p]) # <<>>)

\* process 2 is blocked in flock() while process 1 holds the lock and writes
C9_Witness ==
    /\ pc[2] = "flock_wait"
    /\ lockHolders[PathA] = {1}
    /\ pc[1] = "sleep"
    /\ Len(Writes(trace[1])) = 1
    /\ Writes(trace[2]) = <<>>

(***************************************************************************)
(* C10: with -l the process holds the lock at every write it issues: the   *)
(* lock is taken after the open and before the first write, is held in     *)
(* every state of the loop (between iterations, during sleeps), and is     *)
(* given up only when the handle is closed at the end of the loop or the   *)
(* process ends.                                                           *)
(***************************************************************************)
C10_LockHeldThroughLoop ==
    /\ [](\A p \in Procs :
            (excl_lock(p) # 0 /\ InLoop(p)) => (Holds(p) /\ fd[p] = "open"))
    /\ [][\A p \in Procs :
            /\ (excl_lock(p) # 0 /\ WroteNow(p)) => Holds(p)
            /\ \A f \in Paths :
                 /\ (p \in lockHolders[f] /\ p \notin lockHolders'[f]) =>
                       (pc'[p] = "exited" /\ fd'[p] \in {"closed", "reclaimed"})
                 /\ (p \notin lockHolders[f] /\ p \in lockHolders'[f]) =>
                       (fd[p] = "open" /\ Writes(trace[p]) = <<>>)]_vars

\* between two writes, asleep, the lock still held, the other process blocked
C10_Witness ==
    \E p \in Procs : \E q \in Procs \ {p} :
      /\ excl_lock(p) # 0 /\ pc[p] = "sleep" /\ Holds(p)
      /\ Len(Writes(trace[p])) = 1
      /\ pc[q] = "flock_wait"

(***************************************************************************)
(* The bytes handed to write().                                            *)
(***************************************************************************)
LastWrite(p) == Writes(trace[p])[Len(Writes(trace[p]))]
\* the bytes the last write() call of p was given: the first `asked' bytes
\* of the write buffer as that call left it
LastPayload(p) == RTake(write_buf[p], LastWrite(p)[3])
\* the decimal text of i and a newline
IndexLine(i) == DecimalText(i) \o <<"LF">>

(***************************************************************************)
(* C11: with -b N, 0 < N <= 33554432, every write asks for exactly N       *)
(* bytes, and the N bytes handed to it are the decimal text of the         *)
(* iteration index and a newline, followed by carriage returns only (for   *)
(* an N shorter than the text and its newline: their first N bytes).       *)
(***************************************************************************)
C11_BlockPayload ==
    \A p \in Procs :
      LET N == blocksize(p) IN
        (N > 0 /\ N <= BS_MAX /\ Writes(trace[p]) # <<>>) =>
          /\ LastWrite(p)[3] = N
          /\ RLen(LastPayload(p)) = N
          /\ LastPayload(p) =
                RTake(RCat(RText(IndexLine(LastWrite(p)[2])), RFill("CR", N)), N)

(***************************************************************************)
(* C12: with -b 0 every write carries an index in 0..-c - 1, is handed     *)
(* exactly the decimal text of that index (digits only, no leading zero,   *)
(* denoting the index) followed by one newline, and asks for as many bytes *)
(* as that text has.                                                       *)
(***************************************************************************)
C12_TextPayload ==
    \A p \in Procs :
      (blocksize(p) = 0 /\ Writes(trace[p]) # <<>>) =>
        LET i == LastWrite(p)[2]
            d == DecimalText(i)
        IN  /\ i >= 0 /\ i < iterations(p)
            /\ \A k \in 1..Len(d) : IsDigit(d[k])
            /\ StripZeros(d) = d /\ DigitsValue(d) = i
            /\ LastWrite(p)[3] = Len(d) + 1
            /\ LastPayload(p) = RText(d \o <<"LF">>)
            /\ RLen(LastPayload(p)) = LastWrite(p)[3]

\* -b 0: the third write of a run was handed "2\n", two bytes
C12_Witness ==
    \E p \in Procs :
      /\ blocksize(p) = 0 /\ Len(Writes(trace[p])) = 3
      /\ LastWrite(p) = <<"write", 2, 2, 2>>
      /\ LastPayload(p) = << <<"2", 1>>, <<"LF", 1>> >>

(***************************************************************************)
(* Sleeps.                                                                 *)
(***************************************************************************)
IsSleep(e) == e[1] = "sleep"
IsLoopEvent(e) == IsWrite(e) \/ IsSleep(e)
\* the write() and sleep() calls of a trace, in order
LoopEvents(tr) == SelectSeq(tr, IsLoopEvent)
Sleeps(tr) == SelectSeq(tr, IsSleep)

(***************************************************************************)
(* C13: writes and sleeps alternate, starting with a write: every sleep    *)
(* lasts the configured interval, follows the write of an iteration that   *)
(* is not the last one and comes before the next write; every write of an  *)
(* iteration that is not the last one and that does not end the run is     *)
(* followed by a sleep, whether it succeeded, was short or failed; no      *)
(* sleep follows the last iteration or the write that ends the run in      *)
(* failure; a run that completes c iterations did exactly c - 1 sleeps.    *)
(***************************************************************************)
C13_SleepBetweenIterations ==
    \A p \in Procs :
      LET ev == LoopEvents(trace[p])
          c == iterations(p)
      IN  EnteredLoop(p) =>
            /\ \A k \in 1..Len(ev) : IsWrite(ev[k]) <=> (k % 2 = 1)
            /\ \A k \in 1..Len(ev) :
                 IsSleep(ev[k]) =>
                   /\ ev[k][2] = interval(p)
                   /\ ev[k][2] >= INTERVAL_MIN /\ ev[k][2] <= INTERVAL_MAX
                   /\ ev[k - 1][2] < c - 1
            /\ pc[p] = "sleep" => (ev # <<>> /\ IsWrite(ev[Len(ev)]))
            /\ pc[p] = "write" => (ev = <<>> \/ IsSleep(ev[Len(ev)]))
            /\ (ev # <<>> /\ IsWrite(ev[Len(ev)]) /\ ~Exited(p)) =>
                 IF ev[Len(ev)][2] < c - 1 THEN pc[p] = "sleep" ELSE pc[p] = "close"
            /\ Exited(p) =>
                 /\ ev # <<>> /\ IsWrite(ev[Len(ev)])
                 /\ outcome[p] = "completed" =>
                      /\ Len(Writes(trace[p])) = c
                      /\ Len(Sleeps(trace[p])) = c - 1
                 /\ outcome[p] = "failed_fatal" =>
                      /\ trace[p][Len(trace[p])] = Ev("err_maxfail")
                      /\ IsWrite(trace[p][Len(trace[p]) - 1])

\* -c 3 -f 2 completed: a failed, a short and a full write, two sleeps
C13_Witness ==
    \E p \in Procs :
      LET ws == Writes(trace[p]) IN
        /\ Exited(p) /\ outcome[p] = "completed"
        /\ iterations(p) = 3 /\ failmax(p) = 2
        /\ Len(ws) = 3 /\ Failed(ws[1]) /\ ~Failed(ws[2]) /\ ~Full(ws[2]) /\ Full(ws[3])
        /\ Sleeps(trace[p]) = << <<"sleep", INTERVAL_DEFAULT, 0, 0>>,
                                 <<"sleep", INTERVAL_DEFAULT, 0, 0>> >>

(***************************************************************************)
(* C14: the number of file names on the command line.                      *)
(***************************************************************************)
\* the arguments that are neither options nor option arguments
RECURSIVE Positionals(_)
Positionals(cl) ==
    IF cl = <<>> THEN <<>>
    ELSE IF cl[1] = DashDash THEN Tail(cl)
    ELSE IF cl[1] \in NumericFlags THEN Positionals(SubSeq(cl, 3, Len(cl)))
    ELSE IF IsOptionTok(cl[1]) THEN Positionals(Tail(cl))
    ELSE <<cl[1]>> \o Positionals(Tail(cl))

\* no path has been opened, created or truncated: each is absent or holds
\* what an earlier run left
FilesUntouched == \A f \in Paths : files[f] \in {Absent, FileOf(OldData)}

\* C14: with no file name or with two or more of them on the command line
\* (and no -h), the process opens, creates and truncates no file, none of
\* the named paths included, and when it ends it ends in failure.
C14_OneFilename ==
    \A p \in Procs :
      (pc[p] # "idle" /\ ~HasHelp(cmdline[p]) /\ Len(Positionals(cmdline[p])) # 1) =>
        /\ RejectedUnopened(p)
        /\ FilesUntouched
        /\ heap[p] = "none"

\* two file names after valid options: ended in failure on the file name
\* count, the file an earlier run left is as it was
C14_Witness ==
    \E p \in Procs :
      /\ cmdline[p] = <<OptC, Dec(2), PathA, PathB>>
      /\ Exited(p) /\ exitStatus[p] = EXIT_FAILURE
      /\ trace[p] = <<Ev("err_filename")>>
      /\ files[PathA] = FileOf(OldData) /\ files[PathB] = Absent

(***************************************************************************)
(* C15: two runs with the same flags.                                      *)
(***************************************************************************)
\* the options of a command line with their arguments: what is left of it
\* without the file names
RECURSIVE FlagTokens(_)
FlagTokens(cl) ==
    IF cl = <<>> \/ cl[1] = DashDash THEN <<>>
    ELSE IF cl[1] \in NumericFlags THEN SubSeq(cl, 1, 2) \o FlagTokens(SubSeq(cl, 3, Len(cl)))
    ELSE IF IsOptionTok(cl[1]) THEN <<cl[1]>> \o FlagTokens(Tail(cl))
    ELSE FlagTokens(Tail(cl))

\* two runs with identical flags, each on a path of its own
SameFlags(p, q) ==
    /\ p # q
    /\ FlagTokens(cmdline[p]) = FlagTokens(cmdline[q])
    /\ Positionals(cmdline[p]) # Positionals(cmdline[q])

\* the byte counts the writes of a run asked for, in order
AskedCounts(tr) == [k \in 1..Len(Writes(tr)) |-> Writes(tr)[k][3]]
\* the outcomes of the writes of a run, in order
ReturnedCounts(tr) == [k \in 1..Len(Writes(tr)) |-> Writes(tr)[k][4]]

\* C15 as claimed: two runs with identical flags, each on a fresh path,
\* that have ended did the same number of iterations and asked for the same
\* sequence of byte counts, whatever their writes returned.
C15_Original ==
    \A p \in Procs : \A q \in Procs :
      (SameFlags(p, q) /\ Exited(p) /\ Exited(q)) =>
        AskedCounts(trace[p]) = AskedCounts(trace[q])

\* C15 as amended: two runs with identical flags, each on a fresh path, ask
\* for the same byte count at every iteration index both of them reach,
\* whatever their writes returned; two such runs that both complete their
\* iterations did the same number of iterations, -c, and asked for the same
\* sequence of byte counts.  (A run ended by an open or lock failure or by
\* the failure limit did fewer iterations.)
C15_Amended ==
    \A p \in Procs : \A q \in Procs :
      SameFlags(p, q) =>
        LET a == AskedCounts(trace[p])
            b == AskedCounts(trace[q])
        IN  /\ \A k \in 1..Min(Len(a), Len(b)) : a[k] = b[k]
            /\ (outcome[p] = "completed" /\ outcome[q] = "completed") =>
                 /\ a = b
                 /\ Len(a) = iterations(p)
                 /\ iterations(p) = iterations(q)

\* two completed runs of -c 2 -b 4: one with a failed and a short write,
\* the other with full writes; both asked for 4 and 4 bytes
C15_Witness ==
    /\ SameFlags(1, 2)
    /\ outcome[1] = "completed" /\ outcome[2] = "completed"
    /\ ReturnedCounts(trace[1]) = <<0 - 1, 1>>
    /\ ReturnedCounts(trace[2]) = <<4, 4>>
    /\ AskedCounts(trace[1]) = <<4, 4>>
    /\ AskedCounts(trace[2]) = <<4, 4>>

(***************************************************************************)
(* The failure counter.                                                    *)
(***************************************************************************)
\* the write returned a count, other than the one asked for
Short(w) == ~Failed(w) /\ ~Full(w)
\* the last n writes all failed
LastFailed(ws, n) ==
    /\ Len(ws) >= n
    /\ \A k \in (Len(ws) - n + 1)..Len(ws) : Failed(ws[k])

(***************************************************************************)
(* C16: a short write is not a failure: right after it the failure counter *)
(* is 0, as after a full write, and the run has not ended on the failure   *)
(* limit; a run ends on the limit only when its last -f writes all failed, *)
(* none of them short or full, so failures before a short write do not     *)
(* count towards it.                                                       *)
(***************************************************************************)
C16_ShortWriteResets ==
    \A p \in Procs :
      LET ws == Writes(trace[p]) IN
        /\ (ws # <<>> /\ ~Failed(ws[Len(ws)])) =>
             /\ failures[p] = 0
             /\ outcome[p] # "failed_fatal"
             /\ ~HasEvent(trace[p], "err_maxfail")
        /\ outcome[p] = "failed_fatal" =>
             /\ failmax(p) >= 1
             /\ LastFailed(ws, failmax(p))

\* -f 2: a failed write, a short one, a failed one again, and the run went
\* on to complete
C16_Witness ==
    \E p \in Procs :
      LET ws == Writes(trace[p]) IN
        /\ failmax(p) = 2 /\ iterations(p) = 3 /\ Len(ws) = 3
        /\ Failed(ws[1]) /\ Short(ws[2]) /\ Failed(ws[3])
        /\ outcome[p] = "completed" /\ failures[p] = 1

(***************************************************************************)
(* C17: the failure counter and the failed writes.                         *)
(***************************************************************************)
\* C17 as claimed: whatever the configuration, -f 0 included, the failure
\* counter is the number of writes that failed since the last write that
\* did not fail (or since the start).
C17_Original ==
    \A p \in Procs :
      EnteredLoop(p) => failures[p] = TrailingFails(Writes(trace[p]))

\* C17 as amended: with -f at least 1 the failure counter is the number of
\* writes that failed since the last write that did not fail (or since the
\* start); with -f 0 failed writes are not counted and the counter is 0
\* throughout.
C17_Amended ==
    \A p \in Procs :
      EnteredLoop(p) =>
        /\ failmax(p) >= 1 => failures[p] = TrailingFails(Writes(trace[p]))
        /\ failmax(p) = 0 => failures[p] = 0

\* -f 0: two writes in a row have failed, the counter is 0
C17_Witness ==
    \E p \in Procs :
      /\ InLoop(p) /\ failmax(p) = 0
      /\ TrailingFails(Writes(trace[p])) = 2
      /\ failures[p] = 0

(***************************************************************************)
(* C18: once the write buffer has been allocated, the process does not end *)
(* without the program having freed it and having closed the file          *)
(* descriptor, if it opened one: after an open failure, a lock failure,    *)
(* the last iteration, or the failure limit.                               *)
(***************************************************************************)
C18_ResourcesReleased ==
    \A p \in Procs :
      (Exited(p) /\ heap[p] # "none") =>
        /\ heap[p] = "freed"
        /\ fd[p] \in {"none", "closed"}

(***************************************************************************)
(* C19: a process with a valid configuration that has opened (and, with    *)
(* -l, locked) the file and entered its loop ends, every write and sleep   *)
(* returning: it ends completed or on the failure limit and in no other    *)
(* way, after at most -c writes and at most -c - 1 sleeps, and it ends on  *)
(* the failure limit only with -f at least 1.  (Termination is followed    *)
(* for the runs of at most MaxWrites iterations.)                          *)
(***************************************************************************)
C19_Terminates ==
    /\ [](\A p \in Procs :
            EnteredLoop(p) =>
              /\ iterations(p) >= 1 /\ iterations(p) <= ITERATION_MAX
              /\ Len(Writes(trace[p])) <= iterations(p)
              /\ Len(Sleeps(trace[p])) <= iterations(p) - 1
              /\ Exited(p) => outcome[p] \in {"completed", "failed_fatal"}
              /\ outcome[p] = "failed_fatal" => failmax(p) >= 1)
    /\ \A p \in Procs :
         (InLoop(p) /\ iterations(p) <= MaxWrites)
            ~> (Exited(p) /\ outcome[p] \in {"completed", "failed_fatal"})

\* -l -c 3 -f 1: a full, a short and a failed write with two sleeps, ended
\* on the failure limit
C19_Witness ==
    \E p \in Procs :
      LET ws == Writes(trace[p]) IN
        /\ Exited(p) /\ outcome[p] = "failed_fatal"
        /\ excl_lock(p) # 0 /\ failmax(p) = 1 /\ iterations(p) = 3
        /\ Len(ws) = 3 /\ Full(ws[1]) /\ Short(ws[2]) /\ Failed(ws[3])
        /\ Len(Sleeps(trace[p])) = 2

(***************************************************************************)
(* C20: two processes with -l on the same path.                            *)
(***************************************************************************)
\* this step is one of process p
Acts(p) == pc'[p] # pc[p] \/ trace'[p] # trace[p]

\* C20: the content and the length of a file are not changed by a process
\* while another process holds the exclusive lock on it: neither by a
\* write nor by the truncation of the open.
C20_NoChangeUnderForeignLock ==
    [][\A f \in Paths :
         files'[f] # files[f] =>
           \A q \in Procs : q \in lockHolders[f] => Acts(q)]_vars

====
